---- MODULE Spec2Model ----
(***************************************************************************)
(* Model of streamlit_app_cloud.py: the SimplifiedAnalyzer (page fetch,    *)
(* team and league extraction, randomised prediction generator, grading of *)
(* an actual result) and the form-driven execution at module level.        *)
(*                                                                         *)
(* Python strings are sequences of one-character strings.  Percentages     *)
(* before normalisation are integers in hundredths of a percent; a         *)
(* normalised probability is the exact fraction num/den (in percent);      *)
(* goals are in thousandths of a goal; over_25 and bts are in thousandths  *)
(* of a percent.  League names, which the code only compares for equality, *)
(* are plain strings.                                                      *)
(***************************************************************************)
EXTENDS Integers, Sequences, FiniteSets, TLC

VARIABLES pc, url, actual_result, soup, teams, league, analysis,
          learning_info, fetches, extractions, generations, gradings, errors

vars == <<pc, url, actual_result, soup, teams, league, analysis,
          learning_info, fetches, extractions, generations, gradings, errors>>

(***************************************************************************)
(* Bounds of the model.                                                    *)
(***************************************************************************)
\* subdivisions of each probability-noise range in the generator runs
ProbNoiseSteps == 4
\* subdivisions of each goal-noise range in the generator runs
GoalNoiseSteps == 2
\* subdivisions of every noise range in the end-to-end runs
AppNoiseSteps == 1

(***************************************************************************)
(* Python str operations.                                                  *)
(***************************************************************************)
Lowers == <<"a","b","c","d","e","f","g","h","i","j","k","l","m","n","o","p","q","r","s","t","u","v","w","x","y","z">>
Uppers == <<"A","B","C","D","E","F","G","H","I","J","K","L","M","N","O","P","Q","R","S","T","U","V","W","X","Y","Z">>
Digits == <<"0","1","2","3","4","5","6","7","8","9">>

IsLower(c) == \E i \in 1..Len(Lowers) : Lowers[i] = c
IsUpper(c) == \E i \in 1..Len(Uppers) : Uppers[i] = c
IsCased(c) == IsLower(c) \/ IsUpper(c)
IsDigit(c) == \E i \in 1..Len(Digits) : Digits[i] = c
IsSpace(c) == c = " "

LowerChar(c) ==
    IF IsUpper(c) THEN Lowers[CHOOSE i \in 1..Len(Uppers) : Uppers[i] = c] ELSE c
UpperChar(c) ==
    IF IsLower(c) THEN Uppers[CHOOSE i \in 1..Len(Lowers) : Lowers[i] = c] ELSE c

\* str.lower()
Lower(s) == [i \in 1..Len(s) |-> LowerChar(s[i])]
\* str.upper()
Upper(s) == [i \in 1..Len(s) |-> UpperChar(s[i])]

\* sub in s
Contains(sub, s) ==
    \E i \in 1..(Len(s) - Len(sub) + 1) : SubSeq(s, i, i + Len(sub) - 1) = sub

\* s.startswith(p)
StartsWith(s, p) == Len(s) >= Len(p) /\ SubSeq(s, 1, Len(p)) = p

\* s.find(sep) + 1, or 0 when sep does not occur
Find(sep, s) ==
    IF Contains(sep, s)
    THEN CHOOSE i \in 1..(Len(s) - Len(sep) + 1) :
            /\ SubSeq(s, i, i + Len(sep) - 1) = sep
            /\ \A j \in 1..(i - 1) : SubSeq(s, j, j + Len(sep) - 1) # sep
    ELSE 0

\* s.split(sep), sep not empty
RECURSIVE Split(_, _)
Split(s, sep) ==
    LET i == Find(sep, s)
    IN  IF i = 0 THEN <<s>>
        ELSE <<SubSeq(s, 1, i - 1)>> \o Split(SubSeq(s, i + Len(sep), Len(s)), sep)

\* s.strip()
RECURSIVE LStrip(_)
LStrip(s) == IF s # <<>> /\ IsSpace(Head(s)) THEN LStrip(Tail(s)) ELSE s
RECURSIVE RStrip(_)
RStrip(s) ==
    IF s # <<>> /\ IsSpace(s[Len(s)]) THEN RStrip(SubSeq(s, 1, Len(s) - 1)) ELSE s
Strip(s) == RStrip(LStrip(s))

\* s.split(): the maximal runs of non-whitespace characters
RECURSIVE SplitWs(_)
SplitWs(s) ==
    LET t == LStrip(s)
        n == IF \E i \in 1..Len(t) : IsSpace(t[i])
             THEN (CHOOSE i \in 1..Len(t) :
                      IsSpace(t[i]) /\ \A j \in 1..(i - 1) : ~IsSpace(t[j])) - 1
             ELSE Len(t)
    IN  IF t = <<>> THEN <<>>
        ELSE <<SubSeq(t, 1, n)>> \o SplitWs(SubSeq(t, n + 1, Len(t)))

\* sep.join(parts)
RECURSIVE Join(_, _)
Join(sep, parts) ==
    IF parts = <<>> THEN <<>>
    ELSE IF Len(parts) = 1 THEN parts[1]
    ELSE parts[1] \o sep \o Join(sep, Tail(parts))

\* s.replace(a, b) for single characters a, b
ReplaceChar(s, a, b) == [i \in 1..Len(s) |-> IF s[i] = a THEN b ELSE s[i]]

\* s.title(): a cased character is upper-cased when it does not follow a
\* cased character and lower-cased when it does
Title(s) ==
    [i \in 1..Len(s) |->
        IF i > 1 /\ IsCased(s[i - 1]) THEN LowerChar(s[i]) ELSE UpperChar(s[i])]

DigitVal(c) == (CHOOSE i \in 1..Len(Digits) : Digits[i] = c) - 1

RECURSIVE DigitsVal(_)
DigitsVal(s) ==
    IF s = <<>> THEN 0
    ELSE 10 * DigitsVal(SubSeq(s, 1, Len(s) - 1)) + DigitVal(s[Len(s)])

\* int(s) succeeds: an optional sign followed by decimal digits
IntOk(s) ==
    LET body == IF s # <<>> /\ Head(s) \in {"+", "-"} THEN Tail(s) ELSE s
    IN  body # <<>> /\ \A i \in 1..Len(body) : IsDigit(body[i])

\* int(s), where IntOk(s)
IntVal(s) ==
    IF Head(s) = "-" THEN 0 - DigitsVal(Tail(s))
    ELSE IF Head(s) = "+" THEN DigitsVal(Tail(s))
    ELSE DigitsVal(s)

Max(a, b) == IF a >= b THEN a ELSE b
Min(a, b) == IF a <= b THEN a ELSE b

(***************************************************************************)
(* SimplifiedAnalyzer.__init__ and generate_mock_analysis.                 *)
(***************************************************************************)
KnownLeagues ==
    {"Premier League", "Champions League", "Europa League", "Conference League",
     "La Liga", "Bundesliga", "Serie A", "Ligue 1"}

\* self.league_adjustments: draw_rate in percent, goals in tenths of a goal,
\* home_adv in hundredths
league_adjustments ==
    [l \in KnownLeagues |->
        CASE l = "Premier League"    -> [draw_rate |-> 28, goals |-> 28, home_adv |-> 115]
          [] l = "Champions League"  -> [draw_rate |-> 30, goals |-> 26, home_adv |-> 102]
          [] l = "Europa League"     -> [draw_rate |-> 70, goals |-> 22, home_adv |-> 101]
          [] l = "Conference League" -> [draw_rate |-> 45, goals |-> 15, home_adv |-> 108]
          [] l = "La Liga"           -> [draw_rate |-> 25, goals |-> 27, home_adv |-> 112]
          [] l = "Bundesliga"        -> [draw_rate |-> 24, goals |-> 31, home_adv |-> 108]
          [] l = "Serie A"           -> [draw_rate |-> 27, goals |-> 25, home_adv |-> 110]
          [] l = "Ligue 1"           -> [draw_rate |-> 26, goals |-> 26, home_adv |-> 109]]

\* self.league_adjustments.get(league, {...})
LeagueData(l) ==
    IF l \in KnownLeagues THEN league_adjustments[l]
    ELSE [draw_rate |-> 33, goals |-> 25, home_adv |-> 110]

\* BaseProbs without the Europa League branch of lines 145-149
BaseProbsNoEuropa(l) ==
    CASE l = "Conference League" -> [home |-> 3500, away |-> 2000, draw |-> 4500]
      [] l = "Premier League"    -> [home |-> 4200, away |-> 3000, draw |-> 2800]
      [] l = "Champions League"  -> [home |-> 4000, away |-> 3000, draw |-> 3000]
      [] OTHER                   -> [home |-> 4500, away |-> 3500, draw |-> 2000]

\* base_home, base_away, base_draw after the league-specific adjustments
BaseProbs(l) ==
    CASE l = "Europa League"     -> [home |-> 2500, away |-> 1500, draw |-> 6000]
      [] l = "Conference League" -> [home |-> 3500, away |-> 2000, draw |-> 4500]
      [] l = "Premier League"    -> [home |-> 4200, away |-> 3000, draw |-> 2800]
      [] l = "Champions League"  -> [home |-> 4000, away |-> 3000, draw |-> 3000]
      [] OTHER                   -> [home |-> 4500, away |-> 3500, draw |-> 2000]

\* max(lo, min(hi, x))
Clamp(lo, hi, x) == Max(lo, Min(hi, x))

\* the perturbed and clamped home, away and draw values
PerturbedProbs(l, nh, na, nd) ==
    [home |-> Clamp(1500, 7000, BaseProbs(l).home + nh),
     away |-> Clamp(1500, 7000, BaseProbs(l).away + na),
     draw |-> Clamp(1000, 8000, BaseProbs(l).draw + nd)]

\* NormTotal taken as the total of the base values, which is always 100
NormTotalOfBases(p) == 4500 + 3500 + 2000

\* total = home_prob + away_prob + draw_prob
NormTotal(p) == p.home + p.away + p.draw

\* (x / total) * 100, kept as the exact fraction num / den
Normalized(x, total) == [num |-> x * 100, den |-> total]

\* p > k for a normalised probability p and a number k of percent
ProbGT(p, k) == p.num > k * p.den
\* p > q + k for normalised probabilities p, q of the same denominator
ProbGTPlus(p, q, k) == p.num > q.num + k * p.den

\* TeamGoals without the 0.5 floor
TeamGoalsUnfloored(goals, share, noise) == goals * share + noise

\* max(0.5, expected_goals * share + noise), share in hundredths
TeamGoals(goals, share, noise) == Max(500, goals * share + noise)

\* min(90, max(10, (total_goals - 2.5) * 30 + 50))
Over25(total_goals) == Min(90000, Max(10000, (total_goals - 2500) * 30 + 50000))

\* min(85, max(15, min(home_goals, away_goals) * 40 + 30))
Bts(home_goals, away_goals) ==
    Min(85000, Max(15000, Min(home_goals, away_goals) * 40 + 30000))

HOUSE == "[house]"
ROAD == "[road]"
HANDSHAKE == "[handshake]"

RecDraw == <<HANDSHAKE>> \o <<" ","D","R","A","W">>
RecHome(home_team) == <<HOUSE, " ">> \o home_team \o <<" ","W","I","N">>
RecAway(away_team) == <<ROAD, " ">> \o away_team \o <<" ","W","I","N">>

\* the recommendation and the confidence
Recommend(home_team, away_team, l, home_prob, away_prob, draw_prob) ==
    IF ProbGT(draw_prob, 45) /\ l \in {"Europa League", "Conference League"}
    THEN [recommendation |-> RecDraw,
          confidence |-> IF ProbGT(draw_prob, 50) THEN "MEDIUM" ELSE "LOW"]
    ELSE IF ProbGTPlus(home_prob, away_prob, 8)
    THEN [recommendation |-> RecHome(home_team),
          confidence |-> IF ProbGT(home_prob, 50) THEN "HIGH" ELSE "MEDIUM"]
    ELSE IF ProbGTPlus(away_prob, home_prob, 8)
    THEN [recommendation |-> RecAway(away_team),
          confidence |-> IF ProbGT(away_prob, 50) THEN "HIGH" ELSE "MEDIUM"]
    ELSE [recommendation |-> RecDraw, confidence |-> "LOW"]

\* noise: the five values random.uniform returns, in order
generate_mock_analysis(home_team, away_team, l, noise) ==
    LET league_data == LeagueData(l)
        p           == PerturbedProbs(l, noise.home, noise.away, noise.draw)
        total       == NormTotal(p)
        home_prob   == Normalized(p.home, total)
        away_prob   == Normalized(p.away, total)
        draw_prob   == Normalized(p.draw, total)
        home_goals  == TeamGoals(league_data.goals, 55, noise.home_goals)
        away_goals  == TeamGoals(league_data.goals, 45, noise.away_goals)
        total_goals == home_goals + away_goals
        rec         == Recommend(home_team, away_team, l, home_prob, away_prob, draw_prob)
    IN  [home_team      |-> home_team,
         away_team      |-> away_team,
         league         |-> l,
         home_prob      |-> home_prob,
         away_prob      |-> away_prob,
         draw_prob      |-> draw_prob,
         home_goals     |-> home_goals,
         away_goals     |-> away_goals,
         total_goals    |-> total_goals,
         over_25        |-> Over25(total_goals),
         bts            |-> Bts(home_goals, away_goals),
         recommendation |-> rec.recommendation,
         confidence     |-> rec.confidence]

\* the values random.uniform(lo, hi) is drawn from: both ends and n - 1
\* points between them
NoiseGrid(lo, hi, n) == { lo + ((hi - lo) * k) \div n : k \in 0..n }

\* the five draws of one call: uniform(-8, 8) twice, uniform(-5, 15),
\* uniform(-0.3, 0.3) twice
Noises(np, ng) ==
    [home       : NoiseGrid(-800, 800, np),
     away       : NoiseGrid(-800, 800, np),
     draw       : NoiseGrid(-500, 1500, np),
     home_goals : NoiseGrid(-300, 300, ng),
     away_goals : NoiseGrid(-300, 300, ng)]

(***************************************************************************)
(* The parsed page.  A document is a record                                *)
(*   elements  : the tags that carry text, in document order, each with    *)
(*               its tag name, its class attribute and its text            *)
(*   title     : <<>> or <<text of the title tag>>                         *)
(*   canonical : <<>> or <<href of the first link rel="canonical">>        *)
(*               (an absent href reads as the empty string)                *)
(*   body      : the remaining visible text                                *)
(***************************************************************************)
Doc(elements, title, canonical, body) ==
    [elements |-> elements, title |-> title, canonical |-> canonical, body |-> body]

Element(tag, class, text) == [tag |-> tag, class |-> class, text |-> text]

\* re.compile(r'team|match|title', re.I).search(class)
ClassMatches(class) ==
    \/ Contains(<<"t","e","a","m">>, Lower(class))
    \/ Contains(<<"m","a","t","c","h">>, Lower(class))
    \/ Contains(<<"t","i","t","l","e">>, Lower(class))

\* soup.find_all(['h1', 'h2', 'span'], class_=re.compile(...))
FindTeamElements(d) ==
    SelectSeq(d.elements, LAMBDA e : e.tag \in {"h1", "h2", "span"} /\ ClassMatches(e.class))

\* the title fallback: <<>> or <<(home, away)>>
TitleTeams(d) ==
    IF d.title # <<>> /\ Contains(<<"v","s">>, d.title[1])
    THEN LET parts == Split(d.title[1], <<"v","s">>)
         IN  IF Len(parts) >= 2 THEN <<<<Strip(parts[1]), Strip(parts[2])>>>> ELSE <<>>
    ELSE <<>>

\* the canonical-link fallback: <<>> or <<(home, away)>>
CanonicalTeams(d) ==
    IF d.canonical # <<>> /\ Contains(<<"m","a","t","c","h","e","s">>, d.canonical[1])
    THEN LET parts      == Split(d.canonical[1], <<"m","a","t","c","h","e","s","/">>)
             match_part == parts[Len(parts)]
             tms        == Split(match_part, <<"-">>)
             home       == Title(ReplaceChar(Join(<<" ">>, SubSeq(tms, 1, Len(tms) - 1)), "-", " "))
             away       == Title(ReplaceChar(Split(tms[Len(tms)], <<"-">>)[1], "-", " "))
         IN  IF Len(tms) >= 2 THEN <<<<home, away>>>> ELSE <<>>
    ELSE <<>>

DefaultTeams == <<<<"T","e","a","m"," ","A">>, <<"T","e","a","m"," ","B">>>>

extract_basic_info(d) ==
    LET team_elements == FindTeamElements(d)
        from_title    == IF team_elements = <<>> THEN TitleTeams(d) ELSE <<>>
        from_link     == CanonicalTeams(d)
    IN  IF from_title # <<>> THEN from_title[1]
        ELSE IF from_link # <<>> THEN from_link[1]
        ELSE DefaultTeams

\* soup.get_text()
RECURSIVE ElementsText(_)
ElementsText(es) == IF es = <<>> THEN <<>> ELSE Head(es).text \o ElementsText(Tail(es))

GetText(d) == (IF d.title = <<>> THEN <<>> ELSE d.title[1]) \o ElementsText(d.elements) \o d.body

\* the URL stage of detect_league: "" when no branch matches
LeagueFromUrl(url_lower) ==
    IF Contains(<<"p","r","e","m","i","e","r","-","l","e","a","g","u","e">>, url_lower) \/ Contains(<<"e","p","l">>, url_lower)
    THEN "Premier League"
    ELSE IF Contains(<<"c","h","a","m","p","i","o","n","s","-","l","e","a","g","u","e">>, url_lower) \/ Contains(<<"u","c","l">>, url_lower)
    THEN "Champions League"
    ELSE IF Contains(<<"e","u","r","o","p","a","-","l","e","a","g","u","e">>, url_lower) /\ ~Contains(<<"c","o","n","f","e","r","e","n","c","e">>, url_lower)
    THEN "Europa League"
    ELSE IF Contains(<<"c","o","n","f","e","r","e","n","c","e","-","l","e","a","g","u","e">>, url_lower)
    THEN "Conference League"
    ELSE IF Contains(<<"l","a","-","l","i","g","a">>, url_lower) \/ Contains(<<"s","p","a","i","n">>, url_lower)
    THEN "La Liga"
    ELSE IF Contains(<<"b","u","n","d","e","s","l","i","g","a">>, url_lower) \/ Contains(<<"g","e","r","m","a","n","y">>, url_lower)
    THEN "Bundesliga"
    ELSE IF Contains(<<"s","e","r","i","e","-","a">>, url_lower) \/ Contains(<<"i","t","a","l","y">>, url_lower)
    THEN "Serie A"
    ELSE IF Contains(<<"l","i","g","u","e","-","1">>, url_lower) \/ Contains(<<"f","r","a","n","c","e">>, url_lower)
    THEN "Ligue 1"
    ELSE ""

\* the page-content stage of detect_league: "" when no branch matches
LeagueFromText(text_content) ==
    IF Contains(<<"p","r","e","m","i","e","r"," ","l","e","a","g","u","e">>, text_content)
    THEN "Premier League"
    ELSE IF Contains(<<"c","h","a","m","p","i","o","n","s"," ","l","e","a","g","u","e">>, text_content)
    THEN "Champions League"
    ELSE IF Contains(<<"e","u","r","o","p","a"," ","l","e","a","g","u","e">>, text_content) /\ ~Contains(<<"c","o","n","f","e","r","e","n","c","e">>, text_content)
    THEN "Europa League"
    ELSE IF Contains(<<"c","o","n","f","e","r","e","n","c","e"," ","l","e","a","g","u","e">>, text_content)
    THEN "Conference League"
    ELSE ""

detect_league(u, d) ==
    LET from_url  == LeagueFromUrl(Lower(u))
        from_text == LeagueFromText(Lower(GetText(d)))
    IN  IF from_url # "" THEN from_url
        ELSE IF from_text # "" THEN from_text
        ELSE "Unknown League"

(***************************************************************************)
(* analyze_match: the grading of an actual result.  learning_info is the   *)
(* sequence of the pieces the f-strings put together; the empty sequence   *)
(* is the empty string.                                                    *)
(***************************************************************************)
CHECK == "[check]"
CROSS == "[cross]"

Mark(ok) == IF ok THEN CHECK ELSE CROSS

\* the outcome comparison of lines 239-246
OutcomeCorrect(result_type, predicted) ==
    \/ result_type = <<"H">> /\ Contains(<<"H","O","M","E">>, Upper(predicted))
    \/ result_type = <<"A">> /\ Contains(<<"A","W","A","Y">>, Upper(predicted))
    \/ result_type = <<"D">> /\ Contains(<<"D","R","A","W">>, Upper(predicted))

OutcomeInfo(correct) ==
    <<"Learning:", Mark(correct), IF correct THEN "CORRECT" ELSE "WRONG", "prediction">>

\* ParseScore reading a part that is no integer as 0 and ignoring parts
\* after the second
ParseScoreLenient(score) ==
    LET parts == Split(score, <<"-">>)
        val(s) == IF IntOk(s) THEN IntVal(s) ELSE 0
    IN  [raised |-> FALSE, home_goals |-> val(parts[1]),
         away_goals |-> IF Len(parts) >= 2 THEN val(parts[2]) ELSE 0]

\* home_goals, away_goals = map(int, score.split('-')): raised is TRUE when
\* the unpacking or an int() raises
ParseScore(score) ==
    LET parts == Split(score, <<"-">>)
    IN  IF Len(parts) = 2 /\ IntOk(parts[1]) /\ IntOk(parts[2])
        THEN [raised |-> FALSE, home_goals |-> IntVal(parts[1]), away_goals |-> IntVal(parts[2])]
        ELSE [raised |-> TRUE, home_goals |-> 0, away_goals |-> 0]

\* the body of the try block: what it appends to learning_info
ScoreVerdicts(a, score) ==
    LET s            == ParseScore(score)
        total        == s.home_goals + s.away_goals
        over_correct == (10 * total > 25) = (a.over_25 > 50000)
        bts_correct  == (s.home_goals > 0 /\ s.away_goals > 0) = (a.bts > 50000)
    IN  IF s.raised THEN [raised |-> TRUE, text |-> <<>>]
        ELSE [raised |-> FALSE,
              text |-> <<"|", "O2.5:", Mark(over_correct), "|", "BTS:", Mark(bts_correct)>>]

\* TryScoreVerdicts without the except clause
TryScoreVerdictsUncaught(a, score) == ScoreVerdicts(a, score)

\* try: ... except: pass
TryScoreVerdicts(a, score) ==
    LET r == ScoreVerdicts(a, score)
    IN  IF r.raised THEN [raised |-> FALSE, text |-> <<>>] ELSE r

\* lines 230-260: learning_info, whether the outcome was graded, and whether
\* an exception leaves the block
Grade(a, result) ==
    LET parts       == SplitWs(Strip(result))
        result_type == Upper(parts[1])
        score       == IF Len(parts) > 1 THEN <<parts[2]>> ELSE <<>>
        correct     == OutcomeCorrect(result_type, a.recommendation)
        verdicts    == IF score # <<>> /\ score[1] # <<>> /\ Contains(<<"-">>, score[1])
                       THEN TryScoreVerdicts(a, score[1])
                       ELSE [raised |-> FALSE, text |-> <<>>]
    IN  IF result # <<>> /\ Len(parts) >= 1
        THEN [graded |-> TRUE, raised |-> verdicts.raised,
              learning_info |-> OutcomeInfo(correct) \o verdicts.text]
        ELSE [graded |-> FALSE, raised |-> FALSE, learning_info |-> <<>>]

\* the prefix the form accepts
TrustedPrefix == <<"h","t","t","p","s",":","/","/","w","w","w",".","f","o","r","e","b","e","t",".","c","o","m">>

\* UrlRejected testing for the prefix anywhere in the URL
UrlRejectedUnlessContained(u) == ~Contains(TrustedPrefix, u)

\* not url.startswith("https://www.forebet.com")
UrlRejected(u) == ~StartsWith(u, TrustedPrefix)

(***************************************************************************)
(* The inputs the runs draw from.                                          *)
(***************************************************************************)
NoDoc == Doc(<<>>, <<>>, <<>>, <<>>)

\* pages a fetch can return in the end-to-end runs
AppDocs ==
    { NoDoc,
      Doc(<<>>, <<<<"A","r","s","e","n","a","l"," ","v","s"," ","C","h","e","l","s","e","a">>>>, <<>>, <<>>),
      Doc(<<>>, <<<<"H","o","m","e","b","u","r","g"," ","v","s"," ","A","w","a","y","t","o","n">>>>, <<>>, <<"E","u","r","o","p","a"," ","L","e","a","g","u","e"," ","t","o","n","i","g","h","t">>),
      Doc(<<>>, <<<<"D","r","a","w","f","o","r","d"," ","v","s"," ","C","h","e","l","s","e","a">>>>, <<>>, <<>>),
      Doc(<<>>, <<<<"F","o","r","e","b","e","t">>>>,
          <<<<"h","t","t","p","s",":","/","/","w","w","w",".","f","o","r","e","b","e","t",".","c","o","m","/","e","n","/","f","o","o","t","b","a","l","l","/","m","a","t","c","h","e","s","/","a","r","s","e","n","a","l","-","c","h","e","l","s","e","a","-","1","2","3","4","5","6">>>>, <<>>),
      Doc(<<Element("h1", <<"t","e","a","m","-","n","a","m","e">>, <<"A","r","s","e","n","a","l">>), Element("h2", <<"t","e","a","m","-","n","a","m","e">>, <<"C","h","e","l","s","e","a">>)>>,
          <<<<"A","r","s","e","n","a","l"," ","v","s"," ","C","h","e","l","s","e","a">>>>, <<>>, <<"C","o","n","f","e","r","e","n","c","e"," ","L","e","a","g","u","e">>) }

\* what the user types into the URL field
AppUrls ==
    { <<>>,
      <<" ">>,
      <<"h","t","t","p",":","/","/","w","w","w",".","f","o","r","e","b","e","t",".","c","o","m","/","e","n","/","f","o","o","t","b","a","l","l","/","m","a","t","c","h","e","s","/","a","-","b","-","1">>,
      <<"H","T","T","P","S",":","/","/","W","W","W",".","F","O","R","E","B","E","T",".","C","O","M","/","m","a","t","c","h","e","s","/","a","-","b","-","1">>,
      <<"w","w","w",".","e","v","i","l",".","c","o","m","/","h","t","t","p","s",":","/","/","w","w","w",".","f","o","r","e","b","e","t",".","c","o","m">>,
      <<"h","t","t","p","s",":","/","/","w","w","w",".","f","o","r","e","b","e","t",".","c","o","m">>,
      <<"h","t","t","p","s",":","/","/","w","w","w",".","f","o","r","e","b","e","t",".","c","o","m","/","e","n","/","e","u","r","o","p","a","-","l","e","a","g","u","e","/","m","a","t","c","h","e","s","/","a","r","s","e","n","a","l","-","c","h","e","l","s","e","a","-","1","2","3","4","5","6">>,
      <<"h","t","t","p","s",":","/","/","w","w","w",".","f","o","r","e","b","e","t",".","c","o","m","/","e","n","/","C","o","n","f","e","r","e","n","c","e","-","L","e","a","g","u","e","/","m">> }

\* what the user types into the actual-result field
AppResults ==
    { <<>>, <<" "," ">>, <<"H">>, <<"h"," ","2","-","1">>, <<"A"," ","0","-","3">>, <<" ","D"," ","1","-","1"," ">>, <<"d">>, <<"X"," ","1","-","0">>, <<"H","O","M","E"," ","2","-","1">>,
      <<"H"," ","2","-","x">>, <<"D"," ","1","-","2","-","3">>, <<"A"," ","-","1","-","2">>, <<"H"," ","+","3","-","0">>, <<"D"," ","1","1">>, <<"H"," ","0","-","0"," ","a","e","t">>, <<"D"," ","-">> }

\* pages extract_basic_info is applied to
ExtractElements ==
    { <<>>,
      <<Element("h1", <<"t","e","a","m","-","n","a","m","e">>, <<"A","r","s","e","n","a","l">>), Element("h2", <<"t","e","a","m","-","n","a","m","e">>, <<"C","h","e","l","s","e","a">>)>>,
      <<Element("span", <<"M","a","t","c","h","T","i","t","l","e">>, <<"L","e","e","d","s">>), Element("span", <<"a","w","a","y">>, <<"H","u","l","l">>),
        Element("h1", <<"T","e","a","m">>, <<"Y","o","r","k">>)>>,
      <<Element("h1", <<>>, <<"A","r","s","e","n","a","l">>), Element("span", <<"o","d","d","s">>, <<"C","h","e","l","s","e","a">>)>>,
      <<Element("div", <<"t","e","a","m">>, <<"A","r","s","e","n","a","l">>), Element("p", <<"t","i","t","l","e">>, <<"C","h","e","l","s","e","a">>)>> }

ExtractTitles ==
    { <<>>, <<<<>>>>, <<<<"F","o","r","e","b","e","t">>>>, <<<<"A","r","s","e","n","a","l"," ","v","s"," ","C","h","e","l","s","e","a">>>>, <<<<"A","r","s","e","n","a","l"," ","V","S"," ","C","h","e","l","s","e","a">>>>,
      <<<<" ","L","e","e","d","s"," ","v","s"," ","H","u","l","l"," ","v","s"," ","Y","o","r","k">>>>, <<<<"C","a","n","v","a","s">>>> }

ExtractCanonicals ==
    { <<>>, <<<<>>>>,
      <<<<"h","t","t","p","s",":","/","/","w","w","w",".","f","o","r","e","b","e","t",".","c","o","m","/","e","n","/","f","o","o","t","b","a","l","l","/","m","a","t","c","h","e","s","/","a","r","s","e","n","a","l","-","c","h","e","l","s","e","a","-","1","2","3","4","5","6">>>>,
      <<<<"/","m","a","t","c","h","e","s","/","r","e","a","l","-","m","a","d","r","i","d","-","b","a","r","c","e","l","o","n","a">>>>,
      <<<<"/","m","a","t","c","h","e","s","/","a","r","s","e","n","a","l">>>>,
      <<<<"/","e","n","/","m","a","t","c","h","e","s">>>>,
      <<<<"/","m","y","-","s","i","t","e","/","m","a","t","c","h","e","s">>>>,
      <<<<"/","e","n","/","m","a","t","c","h","e","s","?","i","d","=","a","-","b">>>>,
      <<<<"/","e","n","/","f","o","o","t","b","a","l","l","/","a","r","s","e","n","a","l","-","c","h","e","l","s","e","a">>>>,
      <<<<"/","M","a","t","c","h","e","s","/","l","e","e","d","s","-","h","u","l","l">>>> }

ExtractDocs ==
    { Doc(es, t, c, <<>>) : es \in ExtractElements, t \in ExtractTitles, c \in ExtractCanonicals }

\* URLs detect_league is applied to: a site and two path segments
LeagueSlugs ==
    { <<>>, <<"m","a","t","c","h","e","s">>, <<"p","r","e","m","i","e","r","-","l","e","a","g","u","e">>, <<"e","p","l">>, <<"c","h","a","m","p","i","o","n","s","-","l","e","a","g","u","e">>, <<"U","C","L">>,
      <<"e","u","r","o","p","a","-","l","e","a","g","u","e">>, <<"E","u","r","o","p","a","-","L","e","a","g","u","e">>, <<"c","o","n","f","e","r","e","n","c","e","-","l","e","a","g","u","e">>, <<"c","o","n","f","e","r","e","n","c","e">>,
      <<"C","O","N","F","E","R","E","N","C","E">>, <<"e","u","r","o","p","a","-","c","o","n","f","e","r","e","n","c","e","-","l","e","a","g","u","e">>, <<"l","a","-","l","i","g","a">>, <<"s","p","a","i","n">>, <<"b","u","n","d","e","s","l","i","g","a">>,
      <<"G","e","r","m","a","n","y">>, <<"s","e","r","i","e","-","a">>, <<"i","t","a","l","y">>, <<"l","i","g","u","e","-","1">>, <<"f","r","a","n","c","e">> }

LeagueUrls ==
    { <<"h","t","t","p","s",":","/","/","w","w","w",".","f","o","r","e","b","e","t",".","c","o","m","/">> \o a \o <<"/">> \o b : a \in LeagueSlugs, b \in LeagueSlugs }

LeagueTexts ==
    { <<>>, <<"P","r","e","m","i","e","r"," ","L","e","a","g","u","e"," ","t","a","b","l","e">>, <<"u","e","f","a"," ","c","h","a","m","p","i","o","n","s"," ","l","e","a","g","u","e">>, <<"U","E","F","A"," ","E","u","r","o","p","a"," ","L","e","a","g","u","e">>,
      <<"E","u","r","o","p","a"," ","L","e","a","g","u","e"," ","a","n","d"," ","C","o","n","f","e","r","e","n","c","e"," ","L","e","a","g","u","e">>, <<"C","o","n","f","e","r","e","n","c","e"," ","L","e","a","g","u","e">>, <<"e","u","r","o","p","a"," ","c","o","n","f","e","r","e","n","c","e">>,
      <<"E","u","r","o","p","a","-","L","e","a","g","u","e">> }

LeagueDocs == { Doc(<<>>, <<>>, <<>>, t) : t \in LeagueTexts }

\* leagues and team names generate_mock_analysis is applied to
GenLeagues == KnownLeagues \cup {"Unknown League", "Sunday League"}

GenTeams == { DefaultTeams, <<<<"A","r","s","e","n","a","l">>, <<"C","h","e","l","s","e","a">>>> }

(***************************************************************************)
(* State.                                                                  *)
(*   pc            : where the run is                                      *)
(*   url, actual_result : the submitted form fields                        *)
(*   soup          : <<>> or <<the fetched page>>                          *)
(*   teams, league : what the extractor returned                           *)
(*   analysis      : <<>> or <<the prediction>>                            *)
(*   learning_info : the grading summary                                   *)
(*   fetches, extractions, generations, gradings, errors : how often the   *)
(*   run has issued a GET, extracted, generated, graded an outcome and     *)
(*   called st.error                                                       *)
(***************************************************************************)
Blank ==
    /\ url = <<>>
    /\ actual_result = <<>>
    /\ soup = <<>>
    /\ teams = <<>>
    /\ league = ""
    /\ analysis = <<>>
    /\ learning_info = <<>>
    /\ fetches = 0
    /\ extractions = 0
    /\ generations = 0
    /\ gradings = 0
    /\ errors = 0

(***************************************************************************)
(* Spec: the form and the analysis execution at module level.              *)
(***************************************************************************)
Init == pc = "form" /\ Blank

\* the form is submitted: lines 384-387 and 468-469
Submit(u, r) ==
    /\ pc = "form"
    /\ url' = u
    /\ actual_result' = r
    /\ pc' = IF u # <<>>
             THEN IF UrlRejected(u) THEN "rejected" ELSE "analyzing"
             ELSE "warned"
    /\ errors' = IF u # <<>> /\ UrlRejected(u) THEN 1 ELSE 0
    /\ UNCHANGED <<soup, teams, league, analysis, learning_info,
                   fetches, extractions, generations, gradings>>

\* fetch_page_simple raises: lines 59-60, 464-466
FetchFails ==
    /\ pc = "analyzing"
    /\ fetches' = fetches + 1
    /\ errors' = errors + 1
    /\ pc' = "error"
    /\ UNCHANGED <<url, actual_result, soup, teams, league, analysis, learning_info,
                   extractions, generations, gradings>>

\* fetch_page_simple returns page d and analyze_match runs on it with the
\* given random draws: lines 216-262, 388-462.  teams, league and analysis
\* are analyze_match's local variables; the page shows them when pc = "done"
Analyze(d, noise) ==
    /\ pc = "analyzing"
    /\ fetches' = fetches + 1
    /\ soup' = <<d>>
    /\ teams' = extract_basic_info(d)
    /\ extractions' = extractions + 1
    /\ league' = detect_league(url, d)
    /\ analysis' = <<generate_mock_analysis(teams'[1], teams'[2], league', noise)>>
    /\ generations' = generations + 1
    /\ LET g == Grade(analysis'[1], actual_result)
       IN  /\ gradings' = IF g.graded THEN gradings + 1 ELSE gradings
           /\ learning_info' = g.learning_info
           /\ pc' = IF g.raised THEN "error" ELSE "done"
           /\ errors' = IF g.raised THEN errors + 1 ELSE errors
    /\ UNCHANGED <<url, actual_result>>

\* the script has run to its end; the page waits for the next submission
Rerun ==
    /\ pc \in {"rejected", "warned", "error", "done"}
    /\ pc' = "form"
    /\ url' = <<>>
    /\ actual_result' = <<>>
    /\ soup' = <<>>
    /\ teams' = <<>>
    /\ league' = ""
    /\ analysis' = <<>>
    /\ learning_info' = <<>>
    /\ fetches' = 0
    /\ extractions' = 0
    /\ generations' = 0
    /\ gradings' = 0
    /\ errors' = 0

Next ==
    \/ \E u \in AppUrls, r \in AppResults : Submit(u, r)
    \/ FetchFails
    \/ \E d \in AppDocs, noise \in Noises(AppNoiseSteps, AppNoiseSteps) : Analyze(d, noise)
    \/ Rerun

Spec == Init /\ [][Next]_vars

(***************************************************************************)
(* SpecGen: generate_mock_analysis on every league and noise.              *)
(***************************************************************************)
InitGen ==
    /\ pc = "generate"
    /\ league \in GenLeagues
    /\ teams \in GenTeams
    /\ url = <<>>
    /\ actual_result = <<>>
    /\ soup = <<>>
    /\ analysis = <<>>
    /\ learning_info = <<>>
    /\ fetches = 0
    /\ extractions = 0
    /\ generations = 0
    /\ gradings = 0
    /\ errors = 0

Generate(noise) ==
    /\ pc = "generate"
    /\ analysis' = <<generate_mock_analysis(teams[1], teams[2], league, noise)>>
    /\ generations' = generations + 1
    /\ pc' = "generated"
    /\ UNCHANGED <<url, actual_result, soup, teams, league, learning_info,
                   fetches, extractions, gradings, errors>>

NextGen == \E noise \in Noises(ProbNoiseSteps, GoalNoiseSteps) : Generate(noise)

SpecGen == InitGen /\ [][NextGen]_vars

(***************************************************************************)
(* SpecExtract: extract_basic_info on every page of ExtractDocs.           *)
(***************************************************************************)
InitExtract ==
    /\ pc = "extract"
    /\ soup \in { <<d>> : d \in ExtractDocs }
    /\ url = <<>>
    /\ actual_result = <<>>
    /\ teams = <<>>
    /\ league = ""
    /\ analysis = <<>>
    /\ learning_info = <<>>
    /\ fetches = 0
    /\ extractions = 0
    /\ generations = 0
    /\ gradings = 0
    /\ errors = 0

ExtractBasicInfo ==
    /\ pc = "extract"
    /\ teams' = extract_basic_info(soup[1])
    /\ extractions' = extractions + 1
    /\ pc' = "extracted"
    /\ UNCHANGED <<url, actual_result, soup, league, analysis, learning_info,
                   fetches, generations, gradings, errors>>

NextExtract == ExtractBasicInfo

SpecExtract == InitExtract /\ [][NextExtract]_vars

(***************************************************************************)
(* SpecLeague: detect_league on every URL of LeagueUrls and page of        *)
(* LeagueDocs.                                                             *)
(***************************************************************************)
InitLeague ==
    /\ pc = "detect"
    /\ url \in LeagueUrls
    /\ soup \in { <<d>> : d \in LeagueDocs }
    /\ actual_result = <<>>
    /\ teams = <<>>
    /\ league = ""
    /\ analysis = <<>>
    /\ learning_info = <<>>
    /\ fetches = 0
    /\ extractions = 0
    /\ generations = 0
    /\ gradings = 0
    /\ errors = 0

DetectLeague ==
    /\ pc = "detect"
    /\ league' = detect_league(url, soup[1])
    /\ pc' = "detected"
    /\ UNCHANGED <<url, actual_result, soup, teams, analysis, learning_info,
                   fetches, extractions, generations, gradings, errors>>

NextLeague == DetectLeague

SpecLeague == InitLeague /\ [][NextLeague]_vars

(***************************************************************************)
(* Properties.                                                             *)
(***************************************************************************)
\* the prediction of the current run
A == analysis[1]

\* the whitespace-separated tokens of the submitted actual result
ResultParts == SplitWs(Strip(actual_result))

\* an outcome was graded and found correct
GradedCorrect == Len(learning_info) >= 4 /\ learning_info[3] = "CORRECT"

\* the grading summary carries the over/under verdict, the both-teams-score verdict
HasOverVerdict == \E i \in 1..Len(learning_info) : learning_info[i] = "O2.5:"
HasBtsVerdict == \E i \in 1..Len(learning_info) : learning_info[i] = "BTS:"

\* s reads <int>-<int>
IsIntDashInt(s) ==
    \E i \in 1..Len(s) :
        s[i] = "-" /\ IntOk(SubSeq(s, 1, i - 1)) /\ IntOk(SubSeq(s, i + 1, Len(s)))

\* C1: for every league and every noise, the three probabilities
\* generate_mock_analysis returns sum to 100 and home_goals and away_goals
\* are each at least 0.5.
C1_ProbsSumTo100GoalsFloored ==
    pc = "generated" =>
        /\ A.home_prob.den > 0
        /\ A.away_prob.den = A.home_prob.den
        /\ A.draw_prob.den = A.home_prob.den
        /\ A.home_prob.num + A.draw_prob.num + A.away_prob.num = 100 * A.home_prob.den
        /\ A.home_goals >= 500
        /\ A.away_goals >= 500

\* C1 witness: an unrecognised league, perturbed values whose total is not
\* 100, and the away goals held up by the 0.5 floor in another league
C1_Witness ==
    /\ pc = "generated"
    /\ \/ league = "Sunday League" /\ A.home_prob.den > 10000
       \/ league = "Conference League" /\ A.away_goals = 500 /\ A.home_prob.den < 10000

\* C2: the outcome is graded CORRECT exactly when the result token is H
\* and a home win was recommended, A and an away win, or D and a draw.
C2_GradingMatchesRecommendation ==
    (pc = "done" /\ gradings = 1) =>
        (GradedCorrect <=>
            \/ Upper(ResultParts[1]) = <<"H">> /\ Head(A.recommendation) = HOUSE
            \/ Upper(ResultParts[1]) = <<"A">> /\ Head(A.recommendation) = ROAD
            \/ Upper(ResultParts[1]) = <<"D">> /\ Head(A.recommendation) = HANDSHAKE)

\* C3: a GET happens only for a URL that begins with the trusted prefix and
\* at most once per submission; any other URL, or an empty one, is
\* rejected with no fetch, extraction, generation or grading.
C3_FetchOnlyForTrustedPrefix ==
    /\ fetches <= 1
    /\ fetches > 0 => StartsWith(url, TrustedPrefix)
    /\ (pc # "form" /\ ~StartsWith(url, TrustedPrefix)) =>
          /\ pc \in {"rejected", "warned"}
          /\ fetches = 0 /\ extractions = 0 /\ generations = 0 /\ gradings = 0
          /\ soup = <<>> /\ analysis = <<>> /\ learning_info = <<>>

\* C3 witness: a URL that holds the trusted prefix, but not at its start,
\* has been rejected
C3_Witness ==
    /\ pc = "rejected"
    /\ Contains(TrustedPrefix, url)
    /\ fetches = 0

\* C4: the run ends in an error only when the fetch failed, and then with
\* one error and no extraction, generation or grading; once a page was
\* fetched the run completes with a prediction, whatever the page and the
\* actual-result text, team names and league falling back to defaults.
C4_OnlyFetchAborts ==
    /\ pc = "error" =>
          /\ soup = <<>> /\ fetches = 1 /\ errors = 1
          /\ extractions = 0 /\ generations = 0 /\ gradings = 0
          /\ analysis = <<>> /\ learning_info = <<>>
    /\ soup # <<>> =>
          /\ pc = "done" /\ errors = 0
          /\ analysis # <<>>
          /\ Len(teams) = 2 /\ A.home_team = teams[1] /\ A.away_team = teams[2]
          /\ league \in KnownLeagues \cup {"Unknown League"} /\ A.league = league
          /\ (soup[1] = NoDoc => teams = DefaultTeams)
          /\ (soup[1] = NoDoc /\ url = TrustedPrefix => league = "Unknown League")

\* C4 witness: a page with nothing on it and a malformed score, completed
C4_Witness ==
    /\ pc = "done"
    /\ soup = <<NoDoc>>
    /\ actual_result = <<"H"," ","2","-","x">>
    /\ teams = DefaultTeams
    /\ learning_info # <<>>

\* the first two informative values of the matched heading elements
Stage1Values(d) ==
    SelectSeq([i \in 1..Len(FindTeamElements(d)) |-> Strip(FindTeamElements(d)[i].text)],
              LAMBDA t : t # <<>>)

\* C5: extract_basic_info takes the first two informative values of the
\* matching h1/h2/span elements when there are any, else the title split
\* on "vs", else the canonical link, else the default.
C5_FirstSuccessWins ==
    pc = "extracted" =>
        teams = IF Len(Stage1Values(soup[1])) >= 2
                THEN SubSeq(Stage1Values(soup[1]), 1, 2)
                ELSE IF TitleTeams(soup[1]) # <<>> THEN TitleTeams(soup[1])[1]
                ELSE IF CanonicalTeams(soup[1]) # <<>> THEN CanonicalTeams(soup[1])[1]
                ELSE DefaultTeams

\* C6: for a URL with "europa-league" and without "conference", and a page
\* with no matching team elements, no "vs" in the title and a canonical
\* link ending in matches/arsenal-chelsea-123456, analyze_match yields
\* home "Arsenal", away "Chelsea" and league "Europa League".
C6_EndToEndArsenalChelsea ==
    (/\ pc = "done"
     /\ Contains(<<"e","u","r","o","p","a","-","l","e","a","g","u","e">>, url) /\ ~Contains(<<"c","o","n","f","e","r","e","n","c","e">>, url)
     /\ FindTeamElements(soup[1]) = <<>>
     /\ ~(soup[1].title # <<>> /\ Contains(<<"v","s">>, soup[1].title[1]))
     /\ soup[1].canonical # <<>>
     /\ LET href == soup[1].canonical[1]
            tail == <<"m","a","t","c","h","e","s","/","a","r","s","e","n","a","l","-","c","h","e","l","s","e","a","-","1","2","3","4","5","6">>
        IN  Len(href) >= Len(tail)
            /\ SubSeq(href, Len(href) - Len(tail) + 1, Len(href)) = tail)
    => /\ teams = <<<<"A","r","s","e","n","a","l">>, <<"C","h","e","l","s","e","a">>>>
       /\ A.home_team = <<"A","r","s","e","n","a","l">> /\ A.away_team = <<"C","h","e","l","s","e","a">>
       /\ league = "Europa League"

\* C7: for every URL that contains both "europa-league" and "conference",
\* in any letter case, and every page text, detect_league returns
\* "Conference League".
C7_EuropaConferenceUrl ==
    (/\ pc = "detected"
     /\ Contains(<<"e","u","r","o","p","a","-","l","e","a","g","u","e">>, Lower(url))
     /\ Contains(<<"c","o","n","f","e","r","e","n","c","e">>, Lower(url)))
    => league = "Conference League"

\* C8: extract_basic_info returns ("Team A", "Team B") for every page with
\* no matching h1/h2/span element, no "vs" in the title and no canonical
\* link whose href has a "matches/" segment.
C8_DefaultTeams ==
    (/\ pc = "extracted"
     /\ FindTeamElements(soup[1]) = <<>>
     /\ ~(soup[1].title # <<>> /\ Contains(<<"v","s">>, soup[1].title[1]))
     /\ ~(soup[1].canonical # <<>> /\ Contains(<<"m","a","t","c","h","e","s","/">>, soup[1].canonical[1])))
    => teams = DefaultTeams

\* C9: when the actual result has an outcome token and no score token, or a
\* score token that does not read <int>-<int>, the outcome verdict is
\* produced, the over/under and both-teams-score verdicts are omitted
\* and no error is raised; the two score verdicts are present together or
\* not at all.
C9_ScoreVerdictsLenient ==
    (soup # <<>> /\ actual_result # <<>> /\ Len(ResultParts) >= 1) =>
        /\ pc = "done" /\ errors = 0
        /\ Len(learning_info) >= 4
        /\ learning_info[1] = "Learning:"
        /\ learning_info[3] \in {"CORRECT", "WRONG"}
        /\ HasOverVerdict <=> HasBtsVerdict
        /\ (Len(ResultParts) = 1 \/ ~IsIntDashInt(ResultParts[2])) =>
              (~HasOverVerdict /\ ~HasBtsVerdict /\ Len(learning_info) = 4)

\* C9 witness: an outcome with a score that is not two integers, graded
\* with the outcome verdict alone
C9_Witness ==
    /\ pc = "done"
    /\ Len(ResultParts) >= 2
    /\ Contains(<<"-">>, ResultParts[2])
    /\ ~IsIntDashInt(ResultParts[2])
    /\ Len(learning_info) = 4

\* C10: for "Europa League" and every noise the normalised draw_prob
\* exceeds 45, the recommendation is DRAW and the confidence is MEDIUM or
\* LOW.
C10_EuropaAlwaysDraw ==
    (pc = "generated" /\ league = "Europa League") =>
        /\ ProbGT(A.draw_prob, 45)
        /\ A.recommendation = RecDraw
        /\ A.confidence \in {"MEDIUM", "LOW"}

\* C10 witness: the smallest draw share of the league, below 50 percent
C10_Witness ==
    /\ pc = "generated"
    /\ league = "Europa League"
    /\ ~ProbGT(A.draw_prob, 50)
    /\ A.confidence = "LOW"

\* C11: in every result of generate_mock_analysis bts lies in [50, 85] and
\* over_25 in [10, 90]; the value the lower clamp of 15 guards is never
\* below it, and bts > 50 fails only when the smaller of home_goals and
\* away_goals is exactly 0.5.
C11_BtsAndOver25Ranges ==
    pc = "generated" =>
        /\ A.bts >= 50000 /\ A.bts <= 85000
        /\ A.over_25 >= 10000 /\ A.over_25 <= 90000
        /\ Min(A.home_goals, A.away_goals) * 40 + 30000 > 15000
        /\ ~(A.bts > 50000) => Min(A.home_goals, A.away_goals) = 500

\* C11 witness: the away goals sit on the floor and bts is exactly 50
C11_Witness ==
    /\ pc = "generated"
    /\ A.away_goals = 500
    /\ A.home_goals > 500
    /\ A.bts = 50000

====
